---- MODULE Spec2Model ----
(***************************************************************************)
(* The CSV ingestion pipeline of day06_pipes_contextlib_logging.py:        *)
(* parse_rows (the generator that validates one record at a time) and      *)
(* run_pipeline (existence check, directory creation, the ExitStack scope  *)
(* with the input and the clean-output stream, the accumulate/write loop,  *)
(* the stats document).                                                    *)
(*                                                                         *)
(* Texts are sequences of one-character strings, so that strip(), int()    *)
(* and Decimal() are computed from the characters.  A Decimal is a record  *)
(* [kind, sign, coef, exp] whose coefficient is a sequence of decimal      *)
(* digits (most significant first): the default context works with 28      *)
(* significant digits, more than a machine integer holds.                  *)
(***************************************************************************)
EXTENDS Integers, Sequences, FiniteSets, TLC

(***************************************************************************)
(* Bounds of the model.                                                    *)
(***************************************************************************)
\* the longest input file, in entries (records and blank lines) after the header
MaxRecs == 2

(***************************************************************************)
(* Text helpers.                                                           *)
(***************************************************************************)
\* Python's None for a field the data line does not have (DictReader restval)
None == <<"None">>

Whitespace == {" ", "\t", "\n"}

DigitChars == {"0", "1", "2", "3", "4", "5", "6", "7", "8", "9"}

DigitVal(c) ==
  CASE c = "0" -> 0 [] c = "1" -> 1 [] c = "2" -> 2 [] c = "3" -> 3
    [] c = "4" -> 4 [] c = "5" -> 5 [] c = "6" -> 6 [] c = "7" -> 7
    [] c = "8" -> 8 [] c = "9" -> 9

DigitChar(n) == <<"0", "1", "2", "3", "4", "5", "6", "7", "8", "9">>[n + 1]

\* str.lower() on the letters the decimal grammar knows
Lower(c) ==
  CASE c = "I" -> "i" [] c = "N" -> "n" [] c = "F" -> "f" [] c = "T" -> "t"
    [] c = "Y" -> "y" [] c = "A" -> "a" [] c = "S" -> "s" [] c = "E" -> "e"
    [] OTHER -> c

LowerText(s) == [i \in 1..Len(s) |-> Lower(s[i])]

\* `x or ""`: None and the empty text both give the empty text
OrEmpty(v) == IF v = None \/ v = <<>> THEN <<>> ELSE v

\* str.strip(): drop leading and trailing whitespace
Strip(s) ==
  LET keep == {i \in 1..Len(s) : s[i] \notin Whitespace}
  IN IF keep = {} THEN <<>>
     ELSE LET lo == CHOOSE i \in keep : \A j \in keep : i <= j
              hi == CHOOSE i \in keep : \A j \in keep : j <= i
          IN SubSeq(s, lo, hi)

\* str.replace(c, ""): the text without the character c
RECURSIVE Without(_, _)
Without(s, c) ==
  IF s = <<>> THEN <<>>
  ELSE IF Head(s) = c THEN Without(Tail(s), c)
       ELSE <<Head(s)>> \o Without(Tail(s), c)

AllDigits(s) == \A i \in 1..Len(s) : s[i] \in DigitChars

\* the smallest index of a character of cs in s, 0 when there is none
IndexOf(s, cs) ==
  LET hit == {i \in 1..Len(s) : s[i] \in cs}
  IN IF hit = {} THEN 0 ELSE CHOOSE i \in hit : \A j \in hit : i <= j

(***************************************************************************)
(* Integers: int(text) and str(int).                                       *)
(***************************************************************************)
RECURSIVE DigitsToNat(_)
DigitsToNat(s) ==
  IF s = <<>> THEN 0
  ELSE DigitsToNat(SubSeq(s, 1, Len(s) - 1)) * 10 + DigitVal(s[Len(s)])

\* the digits of an int literal: digits with single underscores between them
IsIntBody(b) ==
  /\ b # <<>>
  /\ \A i \in 1..Len(b) : b[i] \in DigitChars \cup {"_"}
  /\ b[1] # "_"
  /\ b[Len(b)] # "_"
  /\ \A i \in 1..(Len(b) - 1) : ~(b[i] = "_" /\ b[i + 1] = "_")

\* int(text): [ok |-> FALSE] stands for ValueError
ParseInt(text) ==
  LET s    == Strip(text)
      neg  == s # <<>> /\ s[1] = "-"
      body == IF s # <<>> /\ s[1] \in {"+", "-"} THEN Tail(s) ELSE s
  IN IF IsIntBody(body)
     THEN [ok  |-> TRUE,
           val |-> IF neg THEN 0 - DigitsToNat(Without(body, "_"))
                   ELSE DigitsToNat(Without(body, "_"))]
     ELSE [ok |-> FALSE, val |-> 0]

RECURSIVE NatToText(_)
NatToText(n) ==
  IF n < 10 THEN <<DigitChar(n)>>
  ELSE Append(NatToText(n \div 10), DigitChar(n % 10))

\* str(int)
IntToText(n) == IF n < 0 THEN <<"-">> \o NatToText(0 - n) ELSE NatToText(n)

(***************************************************************************)
(* Decimal coefficients: sequences of digits 0..9, most significant first. *)
(***************************************************************************)
\* decimal.getcontext().prec, the default context's significant digits
Prec == 28

Zeros(n) == [i \in 1..n |-> 0]

RECURSIVE StripZeros(_)
StripZeros(ds) ==
  IF Len(ds) > 1 /\ ds[1] = 0 THEN StripZeros(Tail(ds)) ELSE ds

IsZeroCoef(ds) == \A i \in 1..Len(ds) : ds[i] = 0

PadLeft(ds, n) == Zeros(n - Len(ds)) \o ds

RECURSIVE AddRec(_, _, _, _)
AddRec(a, b, i, carry) ==
  IF i = 0 THEN (IF carry = 0 THEN <<>> ELSE <<carry>>)
  ELSE LET t == a[i] + b[i] + carry
       IN Append(AddRec(a, b, i - 1, t \div 10), t % 10)

\* int(a) + int(b) on coefficients
AddCoef(a, b) ==
  LET n == IF Len(a) > Len(b) THEN Len(a) ELSE Len(b)
  IN StripZeros(AddRec(PadLeft(a, n), PadLeft(b, n), n, 0))

RECURSIVE MulDigitRec(_, _, _, _)
MulDigitRec(a, d, i, carry) ==
  IF i = 0 THEN (IF carry = 0 THEN <<>> ELSE <<carry>>)
  ELSE LET t == a[i] * d + carry
       IN Append(MulDigitRec(a, d, i - 1, t \div 10), t % 10)

\* schoolbook multiplication, one digit of b at a time
RECURSIVE MulBy(_, _)
MulBy(a, b) ==
  IF b = <<>> THEN <<0>>
  ELSE LET high == MulBy(a, SubSeq(b, 1, Len(b) - 1))
           low  == StripZeros(MulDigitRec(a, b[Len(b)], Len(a), 0))
       IN AddCoef(Append(high, 0), low)

\* int(a) * int(b) on coefficients (the shorter one is the multiplier)
MulCoef(a, b) == IF Len(b) > Len(a) THEN MulBy(b, a) ELSE MulBy(a, b)

TextToCoef(s) == StripZeros([i \in 1..Len(s) |-> DigitVal(s[i])])

CoefToText(ds) == [i \in 1..Len(ds) |-> DigitChar(ds[i])]

(***************************************************************************)
(* Decimal values.                                                         *)
(***************************************************************************)
Finite(sign, coef, exp) == [kind |-> "F", sign |-> sign, coef |-> coef, exp |-> exp]

Infinity(sign) == [kind |-> "Inf", sign |-> sign, coef |-> <<0>>, exp |-> 0]

NaN(sign) == [kind |-> "NaN", sign |-> sign, coef |-> <<0>>, exp |-> 0]

IsZero(d) == d.kind = "F" /\ IsZeroCoef(d.coef)

\* the exponent text of a numeric literal: [+-]?digits+
IsExpText(e) ==
  LET body == IF e # <<>> /\ e[1] \in {"+", "-"} THEN Tail(e) ELSE e
  IN body # <<>> /\ AllDigits(body)

ExpVal(e) ==
  IF e = <<>> THEN 0
  ELSE IF e[1] = "-" THEN 0 - DigitsToNat(Tail(e))
  ELSE IF e[1] = "+" THEN DigitsToNat(Tail(e))
  ELSE DigitsToNat(e)

\* Decimal(text): [ok |-> FALSE] stands for InvalidOperation (ConversionSyntax).
\* The text is stripped, underscores are dropped, then an optional sign and
\* either digits[.digits][E[+-]digits], Inf/Infinity, or [s]NaN[digits],
\* letters in either case.  The conversion is exact: no rounding.
ParseDecimal(text) ==
  LET s     == Without(Strip(text), "_")
      sign  == IF s # <<>> /\ s[1] = "-" THEN 1 ELSE 0
      body  == LowerText(IF s # <<>> /\ s[1] \in {"+", "-"} THEN Tail(s) ELSE s)
      inf3  == <<"i", "n", "f">>
      inf8  == <<"i", "n", "f", "i", "n", "i", "t", "y">>
      nan3  == <<"n", "a", "n">>
      nanb  == IF body # <<>> /\ body[1] = "s" THEN Tail(body) ELSE body
      epos  == IndexOf(body, {"e"})
      mant  == IF epos = 0 THEN body ELSE SubSeq(body, 1, epos - 1)
      expt  == IF epos = 0 THEN <<>> ELSE SubSeq(body, epos + 1, Len(body))
      dpos  == IndexOf(mant, {"."})
      intp  == IF dpos = 0 THEN mant ELSE SubSeq(mant, 1, dpos - 1)
      frac  == IF dpos = 0 THEN <<>> ELSE SubSeq(mant, dpos + 1, Len(mant))
  IN IF body = inf3 \/ body = inf8
       THEN [ok |-> TRUE, d |-> Infinity(sign)]
     ELSE IF Len(nanb) >= 3 /\ SubSeq(nanb, 1, 3) = nan3
                            /\ AllDigits(SubSeq(nanb, 4, Len(nanb)))
       THEN [ok |-> TRUE, d |-> NaN(sign)]
     ELSE IF /\ AllDigits(intp) /\ AllDigits(frac)
             /\ Len(intp) + Len(frac) >= 1
             /\ (epos = 0 \/ IsExpText(expt))
       THEN [ok |-> TRUE,
             d  |-> Finite(sign, TextToCoef(intp \o frac), ExpVal(expt) - Len(frac))]
     ELSE [ok |-> FALSE, d |-> NaN(0)]

\* Decimal(int)
DecFromInt(n) ==
  IF n < 0 THEN Finite(1, TextToCoef(NatToText(0 - n)), 0)
  ELSE Finite(0, TextToCoef(NatToText(n)), 0)

\* Decimal._fix: round a finite value to the context precision, ROUND_HALF_EVEN
\* (the exponents of the model stay far inside Emin..Emax)
RoundTo(d, prec) ==
  IF d.kind # "F" \/ Len(d.coef) <= prec THEN d
  ELSE LET kept == SubSeq(d.coef, 1, prec)
           rest == SubSeq(d.coef, prec + 1, Len(d.coef))
           up   == \/ rest[1] > 5
                   \/ /\ rest[1] = 5
                      /\ \/ \E i \in 2..Len(rest) : rest[i] # 0
                         \/ kept[prec] % 2 = 1
           inc  == IF up THEN AddCoef(kept, <<1>>) ELSE kept
       IN IF Len(inc) > prec
          THEN Finite(d.sign, SubSeq(inc, 1, prec), d.exp + Len(rest) + 1)
          ELSE Finite(d.sign, inc, d.exp + Len(rest))

Fix(d) == RoundTo(d, Prec)

XorSign(a, b) == IF a = b THEN 0 ELSE 1

\* the mathematical product of two decimals, neither a NaN, no 0 * Infinity
DecMulExact(a, b) ==
  IF a.kind = "Inf" \/ b.kind = "Inf" THEN Infinity(XorSign(a.sign, b.sign))
  ELSE Finite(XorSign(a.sign, b.sign), MulCoef(a.coef, b.coef), a.exp + b.exp)

\* Decimal.__mul__: the product, rounded to the context precision
DecMul(a, b) == Fix(DecMulExact(a, b))

Min(x, y) == IF x < y THEN x ELSE y

Max(x, y) == IF x > y THEN x ELSE y

\* Decimal._rescale to a smaller or equal exponent: pad the coefficient
Rescale(d, exp) ==
  IF IsZero(d) THEN Finite(d.sign, <<0>>, exp)
  ELSE Finite(d.sign, d.coef \o Zeros(d.exp - exp), exp)

\* the mathematical sum of two decimals of the same sign (or with a zero),
\* neither a NaN, no Infinity - Infinity; the result exponent is Decimal.__add__'s
DecAddExact(a, b) ==
  LET exp == Min(a.exp, b.exp)
  IN CASE a.kind = "Inf" -> a
       [] a.kind = "F" /\ b.kind = "Inf" -> b
       [] IsZero(a) /\ IsZero(b) -> Finite(Min(a.sign, b.sign), <<0>>, exp)
       [] IsZero(a) /\ b.kind = "F" /\ ~IsZero(b) ->
            Rescale(b, Max(exp, b.exp - Prec - 1))
       [] IsZero(b) /\ a.kind = "F" /\ ~IsZero(a) ->
            Rescale(a, Max(exp, a.exp - Prec - 1))
       [] a.kind = "F" /\ b.kind = "F" /\ ~IsZero(a) /\ ~IsZero(b) /\ a.sign = b.sign ->
            Finite(a.sign, AddCoef(Rescale(a, exp).coef, Rescale(b, exp).coef), exp)

\* Decimal.__add__: the sum, rounded to the context precision
DecAdd(a, b) == Fix(DecAddExact(a, b))

\* Decimal.__lt__(d, 0) for a d that is not a NaN (a NaN raises InvalidOperation)
DecLtZero(d) == d.sign = 1 /\ ~IsZero(d)

RECURSIVE StripTrailingZeros(_)
StripTrailingZeros(d) ==
  IF Len(d.coef) > 1 /\ d.coef[Len(d.coef)] = 0
  THEN StripTrailingZeros(Finite(d.sign, SubSeq(d.coef, 1, Len(d.coef) - 1), d.exp + 1))
  ELSE d

\* Decimal.__eq__: equal as numbers (13.00 == 13.0, 0 == -0)
DecEq(a, b) ==
  IF a.kind # "F" \/ b.kind # "F" THEN a.kind = b.kind /\ a.kind = "Inf" /\ a.sign = b.sign
  ELSE IF IsZero(a) \/ IsZero(b) THEN IsZero(a) /\ IsZero(b)
  ELSE StripTrailingZeros(a) = StripTrailingZeros(b)

\* Decimal.__str__: plain notation when exp <= 0 and the adjusted exponent is
\* above -7, scientific notation (d.dddE+n) otherwise
DecToText(d) ==
  LET sgn  == IF d.sign = 1 THEN <<"-">> ELSE <<>>
      int  == CoefToText(d.coef)
      left == d.exp + Len(int)
      dot  == IF d.exp <= 0 /\ left > -6 THEN left ELSE 1
      ip   == IF dot <= 0 THEN <<"0">>
              ELSE IF dot >= Len(int) THEN int \o [i \in 1..(dot - Len(int)) |-> "0"]
              ELSE SubSeq(int, 1, dot)
      fp   == IF dot <= 0 THEN <<".">> \o [i \in 1..(0 - dot) |-> "0"] \o int
              ELSE IF dot >= Len(int) THEN <<>>
              ELSE <<".">> \o SubSeq(int, dot + 1, Len(int))
      e    == left - dot
      ex   == IF e = 0 THEN <<>>
              ELSE <<"E">> \o (IF e < 0 THEN <<"-">> ELSE <<"+">>)
                           \o NatToText(IF e < 0 THEN 0 - e ELSE e)
  IN CASE d.kind = "Inf" -> sgn \o <<"I", "n", "f", "i", "n", "i", "t", "y">>
       [] d.kind = "NaN" -> sgn \o <<"N", "a", "N">>
       [] OTHER -> sgn \o ip \o fp \o ex

(***************************************************************************)
(* The input file: a header line, then entries.  An entry is a data line   *)
(* as csv.DictReader maps it (column name to raw text, None for a column   *)
(* the line does not reach), or a blank line, which DictReader skips.  A   *)
(* quoted field may hold a line break: that record covers two lines.       *)
(***************************************************************************)
REQUIRED_COLUMNS == {"sku", "qty", "unit_price"}

\* the fieldnames of the DictWriter
HeaderCols == <<"sku", "qty", "unit_price">>

\* a header line without the qty column
ShortHeader == <<"sku", "unit_price">>

\* reader.fieldnames of an empty file
NoHeader == <<"None">>

Rec(sku, qty, price) == [kind |-> "rec", sku |-> sku, qty |-> qty, unit_price |-> price]

BlankLine == [kind |-> "blank", sku |-> None, qty |-> None, unit_price |-> None]

\* the data lines of the worked example: A1,2,3.50 / ,1,1.00 / A2,0,5.00 / A3,3,2.00
ExampleFile ==
  << Rec(<<"A", "1">>, <<"2">>, <<"3", ".", "5", "0">>), Rec(<<>>, <<"1">>, <<"1", ".", "0", "0">>),
     Rec(<<"A", "2">>, <<"0">>, <<"5", ".", "0", "0">>), Rec(<<"A", "3">>, <<"3">>, <<"2", ".", "0", "0">>) >>

\* the text of a unit price with 29 significant digits
LongPrice == <<"1", ".", "0", "0", "0", "0", "0", "0", "0", "0", "0", "0", "0", "0", "0", "0", "0", "0", "0", "0", "0", "0", "0", "0", "0", "0", "0", "0", "0", "1">>

\* the entries the bounded files are made of
Entries ==
  { Rec(<<>>, <<"1">>, <<"1", ".", "0", "0">>),
    Rec(<<"A", "2">>, <<"0">>, <<"-", "1", ".", "0", "0">>),
    Rec(<<" ", "B", " ">>, <<" ", "1", " ">>, <<" ", "0", ".", "5", " ">>),
    Rec(<<"A", "1">>, <<"a", "b", "c">>, <<"N", "a", "N">>),
    Rec(<<"A", "1">>, <<"2">>, <<"-", "1", ".", "0", "0">>),
    Rec(<<"A", "1">>, <<"1">>, None),
    Rec(<<"A", "1">>, <<"1">>, <<"N", "a", "N">>),
    Rec(<<"A", "1">>, <<"1">>, <<"I", "n", "f", "i", "n", "i", "t", "y">>),
    Rec(<<"A", "1">>, <<"3">>, LongPrice),
    Rec(<<"A", "\n", "5">>, <<"1">>, <<"1", ".", "0", "0">>),
    BlankLine }

RECURSIVE SeqsUpTo(_, _)
SeqsUpTo(S, n) ==
  IF n = 0 THEN {<<>>}
  ELSE LET shorter == SeqsUpTo(S, n - 1)
       IN shorter \cup {Append(q, e) : q \in {r \in shorter : Len(r) = n - 1}, e \in S}

\* the input files of the model
InputFiles ==
  {[exists |-> FALSE, header |-> NoHeader, entries |-> <<>>],
   [exists |-> TRUE, header |-> NoHeader, entries |-> <<>>],
   [exists |-> TRUE, header |-> HeaderCols, entries |-> ExampleFile]}
  \cup {[exists |-> TRUE, header |-> ShortHeader, entries |-> es] :
          es \in SeqsUpTo(Entries, 1)}
  \cup {[exists |-> TRUE, header |-> HeaderCols, entries |-> es] :
          es \in SeqsUpTo(Entries, MaxRecs)}

CountChar(s, c) == Cardinality({k \in 1..Len(s) : s[k] = c})

\* the number of lines of the file an entry covers
PhysLines(e) ==
  1 + CountChar(OrEmpty(e.sku), "\n") + CountChar(OrEmpty(e.qty), "\n")
    + CountChar(OrEmpty(e.unit_price), "\n")

\* the line of the file on which entry k starts (the header is line 1)
RECURSIVE LineOf(_, _)
LineOf(es, k) == IF k = 1 THEN 2 ELSE LineOf(es, k - 1) + PhysLines(es[k - 1])

(***************************************************************************)
(* parse_rows: the five checks of one record.                              *)
(***************************************************************************)
MsgSku == <<"sku must be non-empty">>

MsgQtyInt(qty_s) == <<"qty must be an integer (got ", qty_s, ")">>

MsgQtyPos == <<"qty must be > 0">>

MsgPriceDec(price_s) == <<"unit_price must be a decimal number (got ", price_s, ")">>

MsgPriceNeg == <<"unit_price must be >= 0">>

NoRow == [sku |-> <<>>, qty |-> 0, unit_price |-> NaN(0)]

Yield(sku, qty, unit_price) ==
  [tag |-> "Row", row |-> [sku |-> sku, qty |-> qty, unit_price |-> unit_price],
   line_no |-> 0, msg |-> <<>>]

ValidationErr(msg, line_no) ==
  [tag |-> "ValidationErr", row |-> NoRow, line_no |-> line_no, msg |-> msg]

\* the comparison of a NaN with 0 raises decimal.InvalidOperation, which no
\* handler of parse_rows or run_pipeline catches
Raise(exc) == [tag |-> exc, row |-> NoRow, line_no |-> 0, msg |-> <<>>]

\* Validate with check 3 loosened to `qty < 0`
ValidateZeroQty(raw, i) ==
  LET sku     == Strip(OrEmpty(raw.sku))
      qty_s   == Strip(OrEmpty(raw.qty))
      qty     == ParseInt(qty_s)
      price_s == Strip(OrEmpty(raw.unit_price))
      price   == ParseDecimal(price_s)
  IN IF sku = <<>> THEN ValidationErr(MsgSku, i)
     ELSE IF ~qty.ok THEN ValidationErr(MsgQtyInt(qty_s), i)
     ELSE IF qty.val < 0 THEN ValidationErr(MsgQtyPos, i)
     ELSE IF ~price.ok THEN ValidationErr(MsgPriceDec(price_s), i)
     ELSE IF price.d.kind = "NaN" THEN Raise("InvalidOperation")
     ELSE IF DecLtZero(price.d) THEN ValidationErr(MsgPriceNeg, i)
     ELSE Yield(sku, qty.val, price.d)

\* Validate with the unit_price checks placed before the qty checks
ValidatePriceFirst(raw, i) ==
  LET sku     == Strip(OrEmpty(raw.sku))
      qty_s   == Strip(OrEmpty(raw.qty))
      qty     == ParseInt(qty_s)
      price_s == Strip(OrEmpty(raw.unit_price))
      price   == ParseDecimal(price_s)
  IN IF sku = <<>> THEN ValidationErr(MsgSku, i)
     ELSE IF ~price.ok THEN ValidationErr(MsgPriceDec(price_s), i)
     ELSE IF price.d.kind = "NaN" THEN Raise("InvalidOperation")
     ELSE IF DecLtZero(price.d) THEN ValidationErr(MsgPriceNeg, i)
     ELSE IF ~qty.ok THEN ValidationErr(MsgQtyInt(qty_s), i)
     ELSE IF qty.val <= 0 THEN ValidationErr(MsgQtyPos, i)
     ELSE Yield(sku, qty.val, price.d)

\* the body of the for loop of parse_rows for the record raw, numbered i
Validate(raw, i) ==
  LET sku     == Strip(OrEmpty(raw.sku))
      qty_s   == Strip(OrEmpty(raw.qty))
      qty     == ParseInt(qty_s)
      price_s == Strip(OrEmpty(raw.unit_price))
      price   == ParseDecimal(price_s)
  IN IF sku = <<>> THEN ValidationErr(MsgSku, i)
     ELSE IF ~qty.ok THEN ValidationErr(MsgQtyInt(qty_s), i)
     ELSE IF qty.val <= 0 THEN ValidationErr(MsgQtyPos, i)
     ELSE IF ~price.ok THEN ValidationErr(MsgPriceDec(price_s), i)
     ELSE IF price.d.kind = "NaN" THEN Raise("InvalidOperation")
     ELSE IF DecLtZero(price.d) THEN ValidationErr(MsgPriceNeg, i)
     ELSE Yield(sku, qty.val, price.d)

(***************************************************************************)
(* logging: the logger "day06.pipeline" and configure_logging.             *)
(***************************************************************************)
NOTSET == 0

DEBUG == 10

INFO == 20

WARNING == 30

ERROR == 40

Levels == {DEBUG, INFO, WARNING, ERROR}

\* the logger as the import leaves it: its level is NOTSET, it has no
\* handler, so the root logger's WARNING and the last-resort handler
\* (WARNING) apply
Unconfigured == [configured |-> FALSE, level |-> NOTSET, handler |-> WARNING]

\* configure_logging(level): the level of the logger is set; the handlers
\* are made at that level unless the logger has handlers already
Configure(cfg, level) ==
  [configured |-> TRUE, level |-> level,
   handler |-> IF cfg.configured THEN cfg.handler ELSE level]

\* Logger.isEnabledFor and Handler.handle: whether a record of level lv is put out
Handled(cfg, lv) ==
  /\ lv >= (IF cfg.level = NOTSET THEN WARNING ELSE cfg.level)
  /\ lv >= cfg.handler

\* one call of the logger: its level, its format string, and the line
\* number and the message it is given
LogRecord(lv, what, line_no, msg) ==
  [level |-> lv, event |-> what, line_no |-> line_no, msg |-> msg]

Event(lv, what) == LogRecord(lv, what, 0, <<>>)

\* the three log.info calls at the start of run_pipeline
StartEvents ==
  <<Event(INFO, "Starting pipeline"), Event(INFO, "Input: %s"),
    Event(INFO, "Outputs: %s, %s")>>

\* the two log.warning calls of `except ValidationErr as e`
Warnings(line_no, msg) ==
  <<LogRecord(WARNING, "*** Validation failed on line %s", line_no, <<>>),
    LogRecord(WARNING, "*** {e}", 0, msg)>>

\* the calls of the logger, in order: those that are handled are put out
Emit(out, cfg, events) == out \o SelectSeq(events, LAMBDA e : Handled(cfg, e.level))

(***************************************************************************)
(* The state of one call of run_pipeline and of the file system around it. *)
(***************************************************************************)
VARIABLES
  input,      \* the input file: [exists, header, entries]
  pre,        \* the output locations as the call found them: [dirs, clean, statsdoc]
  dirs,       \* whether the parent directory of each output exists
  clean,      \* the clean output file: [exists, header, rows]
  statsdoc,   \* the stats document: [exists, doc]
  pc,         \* the statement run_pipeline is at
  fin,        \* the input stream: "unopened", "open" or "closed"
  fout,       \* the clean-output stream: "unopened", "open" or "closed"
  pos,        \* how many entries of the file the reader has consumed
  i,          \* the counter of enumerate(reader, start=2)
  row,        \* the Row that parse_rows yielded and the loop body holds
  last,       \* the outcome of the latest validation: [tag, at, line_no, msg]
  rows_in, rows_out, total_qty, gross,
  stats,      \* the Stats value built after the loop
  log,        \* the warnings given to the logger
  outcome,    \* "running", "Stats", or the exception that left run_pipeline
  cause,      \* the __cause__ of that exception
  fault,      \* the statement at which an OSError was raised, "none" if none was
  serialized, \* how many times the Stats value was given to json.dumps
  first,      \* what an earlier call on the same input did, NoFirst if there was none
  logcfg,     \* the logger: [configured, level, handler]
  emitted,    \* the records the handlers of the logger put out during this call
  exit_status,\* of main: [main, status], main "none" (not called), "running" or "exited"
  order_status, \* Order.order_status
  items,      \* Order._items: a sequence of [sku, quantity]
  raised,     \* the exception the latest call of a method of Order raised, "none" if none
  called      \* the latest call of a method of Order: [method, sku, unit_price, quantity]

vars == <<input, pre, dirs, clean, statsdoc, pc, fin, fout, pos, i, row, last,
          rows_in, rows_out, total_qty, gross, stats, log, outcome, cause,
          fault, serialized, first, logcfg, emitted, exit_status,
          order_status, items, raised, called>>

Absent == [exists |-> FALSE, header |-> <<>>, rows |-> <<>>]

\* a clean output left by an earlier run
OldClean == [exists |-> TRUE, header |-> HeaderCols,
             rows |-> << <<<<"O", "L", "D">>, <<"9">>, <<"9", ".", "9", "9">>>> >>]

\* out_clean_csv.open("w"): created or truncated
Truncated == [exists |-> TRUE, header |-> <<>>, rows |-> <<>>]

EmptyDoc == [rows_in |-> <<>>, rows_out |-> <<>>, total_qty |-> <<>>, gross_revenue |-> <<>>]

NoDoc == [exists |-> FALSE, doc |-> EmptyDoc]

\* a stats document left by an earlier run
OldDoc == [exists |-> TRUE,
           doc |-> [rows_in |-> <<"1">>, rows_out |-> <<"1">>, total_qty |-> <<"9">>,
                    gross_revenue |-> <<"8", "9", ".", "9", "1">>]]

NoStats == [rows_in |-> 0, rows_out |-> 0, total_qty |-> 0, gross_revenue |-> NaN(0)]

NoVerdict == [tag |-> "none", at |-> 0, line_no |-> 0, msg |-> <<>>]

\* main has not been called
NoMain == [main |-> "none", status |-> 0]

\* no method of the Order has been called
NoCall == [method |-> "none", sku |-> "", unit_price |-> 0, quantity |-> 0]

\* no earlier call on this input
NoFirst == [outcome |-> "none"]

\* the output locations before the call: a first run, or a run after an earlier one
PreStates ==
  { [dirs |-> [clean |-> FALSE, stats |-> FALSE], clean |-> Absent, statsdoc |-> NoDoc],
    [dirs |-> [clean |-> TRUE, stats |-> TRUE], clean |-> OldClean, statsdoc |-> OldDoc] }

Init ==
  /\ input \in InputFiles
  /\ pre \in PreStates
  /\ dirs = pre.dirs
  /\ clean = pre.clean
  /\ statsdoc = pre.statsdoc
  /\ pc = "start"
  /\ fin = "unopened"
  /\ fout = "unopened"
  /\ pos = 0
  /\ i = 2
  /\ row = NoRow
  /\ last = NoVerdict
  /\ rows_in = 0
  /\ rows_out = 0
  /\ total_qty = 0
  /\ gross = ParseDecimal(<<"0">>).d
  /\ stats = NoStats
  /\ log = <<>>
  /\ outcome = "running"
  /\ cause = "none"
  /\ fault = "none"
  /\ serialized = 0
  /\ first = NoFirst
  /\ logcfg = Unconfigured
  /\ emitted = <<>>
  /\ exit_status = NoMain
  /\ order_status = "new"
  /\ items = <<>>
  /\ raised = "none"
  /\ called = NoCall

\* Released for streams opened without the ExitStack
Unreleased(s) == s

\* ExitStack.__exit__: a stream that was opened is closed
Released(s) == IF s = "open" THEN "closed" ELSE s

\* an exception leaves run_pipeline; the ExitStack releases what it holds
Fail(exc, c) ==
  /\ outcome' = exc
  /\ cause' = c
  /\ pc' = "done"
  /\ fin' = Released(fin)
  /\ fout' = Released(fout)

loopVars == <<pos, i, row, last, rows_in, rows_out, total_qty, gross, stats, log>>

\* what run_pipeline never touches: the logging configuration, the exit
\* status of main, and the Order of day02 and day03
orderVars == <<order_status, items, raised, called>>

callVars == <<logcfg, exit_status, orderVars>>

fsVars == <<dirs, clean, statsdoc>>

(***************************************************************************)
(* run_pipeline up to the loop.                                            *)
(***************************************************************************)
\* CheckInputMissing with the directories made before the existence check
CheckInputAfterMkdir ==
  /\ pc = "start"
  /\ ~input.exists
  /\ dirs' = [clean |-> TRUE, stats |-> TRUE]
  /\ Fail("InputNotFoundErr", "none")
  /\ emitted' = Emit(emitted, logcfg, StartEvents)
  /\ UNCHANGED <<input, pre, first, callVars, fault, serialized, clean, statsdoc, loopVars>>

\* if not input_csv.exists(): raise InputNotFoundErr
CheckInputMissing ==
  /\ pc = "start"
  /\ ~input.exists
  /\ Fail("InputNotFoundErr", "none")
  /\ emitted' = Emit(emitted, logcfg, StartEvents)
  /\ UNCHANGED <<input, pre, first, callVars, fault, serialized, fsVars, loopVars>>

CheckInputFound ==
  /\ pc = "start"
  /\ input.exists
  /\ pc' = "mkdir"
  /\ emitted' = Emit(emitted, logcfg, StartEvents)
  /\ UNCHANGED <<input, pre, first, callVars, fault, serialized, fsVars, fin, fout, loopVars, outcome, cause>>

\* the two parent.mkdir(parents=True, exist_ok=True)
MakeDirs ==
  /\ pc = "mkdir"
  /\ dirs' = [clean |-> TRUE, stats |-> TRUE]
  /\ pc' = "open_in"
  /\ UNCHANGED <<input, pre, first, callVars, emitted, fault, serialized, clean, statsdoc, fin, fout, loopVars, outcome, cause>>

\* a mkdir raises OSError, outside the try statement: the first directory
\* may have been made
MakeDirsFail ==
  /\ pc = "mkdir"
  /\ \E made \in BOOLEAN : dirs' = [dirs EXCEPT !.clean = dirs.clean \/ made]
  /\ Fail("OSError", "none")
  /\ fault' = pc
  /\ UNCHANGED <<input, pre, first, callVars, emitted, serialized, clean, statsdoc, loopVars>>

\* fin = stack.enter_context(input_csv.open("r"))
OpenInput ==
  /\ pc = "open_in"
  /\ fin' = "open"
  /\ pc' = "open_out"
  /\ UNCHANGED <<input, pre, first, callVars, emitted, fault, serialized, fsVars, fout, loopVars, outcome, cause>>

\* OpenInputFail with the clean output opened before the input
OpenInputFailAfterOutput ==
  /\ pc = "open_in"
  /\ fout' = "open"
  /\ clean' = Truncated
  /\ outcome' = "InputFormatErr"
  /\ cause' = "OSError"
  /\ pc' = "done"
  /\ fault' = pc
  /\ UNCHANGED <<input, pre, first, callVars, emitted, serialized, dirs, statsdoc, fin, loopVars>>

\* input_csv.open("r") raises OSError: the ExitStack holds nothing yet
OpenInputFail ==
  /\ pc = "open_in"
  /\ Fail("InputFormatErr", "OSError")
  /\ fault' = pc
  /\ UNCHANGED <<input, pre, first, callVars, emitted, serialized, fsVars, loopVars>>

\* OpenOutput with the file opened for appending: what it held is kept
OpenOutputAppend ==
  /\ pc = "open_out"
  /\ fout' = "open"
  /\ clean' = IF clean.exists THEN clean ELSE Truncated
  /\ pc' = "header"
  /\ UNCHANGED <<input, pre, first, callVars, emitted, fault, serialized, dirs, statsdoc, fin, loopVars, outcome, cause>>

\* OpenOutput with the stats document opened for writing in the same scope
OpenOutputWithStats ==
  /\ pc = "open_out"
  /\ fout' = "open"
  /\ clean' = Truncated
  /\ statsdoc' = [exists |-> TRUE, doc |-> EmptyDoc]
  /\ pc' = "header"
  /\ UNCHANGED <<input, pre, first, callVars, emitted, fault, serialized, dirs, fin, loopVars, outcome, cause>>

\* fout_csv = stack.enter_context(out_clean_csv.open("w"))
OpenOutput ==
  /\ pc = "open_out"
  /\ fout' = "open"
  /\ clean' = Truncated
  /\ pc' = "header"
  /\ UNCHANGED <<input, pre, first, callVars, emitted, fault, serialized, dirs, statsdoc, fin, loopVars, outcome, cause>>

OpenOutputFail ==
  /\ pc = "open_out"
  /\ Fail("InputFormatErr", "OSError")
  /\ fault' = pc
  /\ UNCHANGED <<input, pre, first, callVars, emitted, serialized, fsVars, loopVars>>

\* WriteHeader without the call of writeheader
WriteHeaderSkipped ==
  /\ pc = "header"
  /\ pc' = "check"
  /\ UNCHANGED <<input, pre, first, callVars, emitted, fault, serialized, fsVars, fin, fout, loopVars, outcome, cause>>

\* writer.writeheader()
WriteHeader ==
  /\ pc = "header"
  /\ clean' = [clean EXCEPT !.header = HeaderCols]
  /\ pc' = "check"
  /\ UNCHANGED <<input, pre, first, callVars, emitted, fault, serialized, dirs, statsdoc, fin, fout, loopVars, outcome, cause>>

\* HeaderValid that only asks for a header line
HeaderValidAnyColumns(h) == h # NoHeader

HeaderValid(h) ==
  h # NoHeader /\ REQUIRED_COLUMNS \ {h[k] : k \in 1..Len(h)} = {}

\* the first next() of the generator: parse_rows checks reader.fieldnames
HeaderBad ==
  /\ pc = "check"
  /\ ~HeaderValid(input.header)
  /\ Fail("InputFormatErr", "none")
  /\ UNCHANGED <<input, pre, first, callVars, emitted, fault, serialized, fsVars, loopVars>>

HeaderOk ==
  /\ pc = "check"
  /\ HeaderValid(input.header)
  /\ pc' = "loop"
  /\ UNCHANGED <<input, pre, first, callVars, emitted, fault, serialized, fsVars, fin, fout, loopVars, outcome, cause>>

(***************************************************************************)
(* The loop: parse_rows validates the next record, run_pipeline's loop     *)
(* body counts and writes the row it was handed.                           *)
(***************************************************************************)
\* the next entry DictReader returns after position p (blank lines are
\* skipped), 0 at the end of the file
NextIndex(es, p) ==
  LET recs == {k \in (p + 1)..Len(es) : es[k].kind = "rec"}
  IN IF recs = {} THEN 0 ELSE CHOOSE k \in recs : \A j \in recs : k <= j

Verdict(v, k) == [tag |-> v.tag, at |-> k, line_no |-> v.line_no, msg |-> v.msg]

\* RowLine with the values of qty and unit_price in each other's column
RowLineSwapped(r) == <<r.sku, DecToText(r.unit_price), IntToText(r.qty)>>

\* the csv line of a row: DictWriter writes str() of each value
RowLine(r) == <<r.sku, IntToText(r.qty), DecToText(r.unit_price)>>

\* WriteRow with the line put before the lines written so far
WriteRowFirst(rows, line) == <<line>> \o rows

\* writer.writerow: the line goes after the lines written so far
WriteRow(rows, line) == Append(rows, line)

\* parse_rows reaches `yield Row(...)`: the loop body gets the row
YieldRow ==
  /\ pc = "loop"
  /\ \E k \in {NextIndex(input.entries, pos)} \ {0} :
       \E v \in {Validate(input.entries[k], i)} :
              /\ v.tag = "Row"
              /\ row' = v.row
              /\ last' = Verdict(v, k)
              /\ pos' = k
              /\ i' = i + 1
  /\ pc' = "body"
  /\ UNCHANGED <<input, pre, first, callVars, emitted, fault, serialized, fsVars, fin, fout, rows_in, rows_out, total_qty,
                 gross, stats, log, outcome, cause>>

\* RejectRecord with rows_in counting every record read
RejectRecordCounted ==
  /\ pc = "loop"
  /\ \E k \in {NextIndex(input.entries, pos)} \ {0} :
       \E v \in {Validate(input.entries[k], i)} :
              /\ v.tag = "ValidationErr"
              /\ log' = log \o Warnings(v.line_no, v.msg)
              /\ emitted' = Emit(emitted, logcfg, Warnings(v.line_no, v.msg))
              /\ last' = Verdict(v, k)
              /\ pos' = k
              /\ i' = i + 1
  /\ rows_in' = rows_in + 1
  /\ UNCHANGED <<input, pre, first, callVars, fault, serialized, fsVars, pc, fin, fout, row, rows_out,
                 total_qty, gross, stats, outcome, cause>>

\* RejectRecord with the record written to the clean output as it was read
RejectRecordWritten ==
  /\ pc = "loop"
  /\ \E k \in {NextIndex(input.entries, pos)} \ {0} :
       \E v \in {Validate(input.entries[k], i)} :
              /\ v.tag = "ValidationErr"
              /\ log' = log \o Warnings(v.line_no, v.msg)
              /\ emitted' = Emit(emitted, logcfg, Warnings(v.line_no, v.msg))
              /\ last' = Verdict(v, k)
              /\ pos' = k
              /\ i' = i + 1
              /\ clean' = [clean EXCEPT !.rows =
                             Append(@, <<OrEmpty(input.entries[k].sku),
                                         OrEmpty(input.entries[k].qty),
                                         OrEmpty(input.entries[k].unit_price)>>)]
  /\ UNCHANGED <<input, pre, first, callVars, fault, serialized, dirs, statsdoc, pc, fin, fout, row, rows_in, rows_out,
                 total_qty, gross, stats, outcome, cause>>

\* except ValidationErr: the two log.warning calls, then continue
RejectRecord ==
  /\ pc = "loop"
  /\ \E k \in {NextIndex(input.entries, pos)} \ {0} :
       \E v \in {Validate(input.entries[k], i)} :
              /\ v.tag = "ValidationErr"
              /\ log' = log \o Warnings(v.line_no, v.msg)
              /\ emitted' = Emit(emitted, logcfg, Warnings(v.line_no, v.msg))
              /\ last' = Verdict(v, k)
              /\ pos' = k
              /\ i' = i + 1
  /\ UNCHANGED <<input, pre, first, callVars, fault, serialized, fsVars, pc, fin, fout, row, rows_in, rows_out,
                 total_qty, gross, stats, outcome, cause>>

\* an exception other than ValidationErr leaves the generator and the
\* with statement; `except OSError` does not catch it
AbortRecord ==
  /\ pc = "loop"
  /\ \E k \in {NextIndex(input.entries, pos)} \ {0} :
       \E v \in {Validate(input.entries[k], i)} :
              /\ v.tag \notin {"Row", "ValidationErr"}
              /\ last' = Verdict(v, k)
              /\ pos' = k
              /\ Fail(v.tag, "none")
  /\ UNCHANGED <<input, pre, first, callVars, emitted, fault, serialized, fsVars, i, row, rows_in, rows_out, total_qty,
                 gross, stats, log>>

\* the reader is exhausted: the generator returns, the for loop ends
EndOfInput ==
  /\ pc = "loop"
  /\ NextIndex(input.entries, pos) = 0
  /\ pos' = Len(input.entries)
  /\ pc' = "stats"
  /\ UNCHANGED <<input, pre, first, callVars, emitted, fault, serialized, fsVars, fin, fout, i, row, last, rows_in, rows_out,
                 total_qty, gross, stats, log, outcome, cause>>

\* ConsumeRow with the row written only when the logger handles log.info
ConsumeRowIfLogged ==
  /\ pc = "body"
  /\ rows_in' = rows_in + 1
  /\ rows_out' = rows_out + 1
  /\ total_qty' = total_qty + row.qty
  /\ gross' = DecAdd(gross, DecMul(DecFromInt(row.qty), row.unit_price))
  /\ clean' = IF Handled(logcfg, INFO)
              THEN [clean EXCEPT !.rows = WriteRow(clean.rows, RowLine(row))]
              ELSE clean
  /\ row' = NoRow
  /\ pc' = "loop"
  /\ emitted' = Emit(emitted, logcfg, <<Event(INFO, "row")>>)
  /\ UNCHANGED <<input, pre, first, callVars, fault, serialized, dirs, statsdoc, fin, fout, pos, i, last, stats, log,
                 outcome, cause>>

\* the loop body: the four counters, then writer.writerow
ConsumeRow ==
  /\ pc = "body"
  /\ rows_in' = rows_in + 1
  /\ rows_out' = rows_out + 1
  /\ total_qty' = total_qty + row.qty
  /\ gross' = DecAdd(gross, DecMul(DecFromInt(row.qty), row.unit_price))
  /\ clean' = [clean EXCEPT !.rows = WriteRow(clean.rows, RowLine(row))]
  /\ row' = NoRow
  /\ pc' = "loop"
  /\ emitted' = Emit(emitted, logcfg, <<Event(INFO, "row")>>)
  /\ UNCHANGED <<input, pre, first, callVars, fault, serialized, dirs, statsdoc, fin, fout, pos, i, last, stats, log,
                 outcome, cause>>

\* IOFail with the OSError reported as OutputWriteErr
IOFailAsOutputWrite ==
  /\ pc \in {"header", "check", "loop", "body", "close"}
  /\ Fail("OutputWriteErr", "OSError")
  /\ fault' = pc
  /\ UNCHANGED <<input, pre, first, callVars, emitted, serialized, fsVars, loopVars>>

\* a read or a write of an open stream raises OSError: the handler at the
\* end of run_pipeline turns it into InputFormatErr
IOFail ==
  /\ pc \in {"header", "check", "loop", "body", "close"}
  /\ Fail("InputFormatErr", "OSError")
  /\ fault' = pc
  /\ UNCHANGED <<input, pre, first, callVars, emitted, serialized, fsVars, loopVars>>

(***************************************************************************)
(* After the loop.                                                         *)
(***************************************************************************)
\* stats = Stats(rows_in=..., rows_out=..., total_qty=..., gross_revenue=gross)
BuildStats ==
  /\ pc = "stats"
  /\ stats' = [rows_in |-> rows_in, rows_out |-> rows_out, total_qty |-> total_qty,
               gross_revenue |-> gross]
  /\ pc' = "close"
  /\ UNCHANGED <<input, pre, first, callVars, emitted, fault, serialized, fsVars, fin, fout, pos, i, row, last, rows_in, rows_out,
                 total_qty, gross, log, outcome, cause>>

\* the end of the with statement: both streams are closed
CloseScope ==
  /\ pc = "close"
  /\ fin' = "closed"
  /\ fout' = "closed"
  /\ pc' = "write"
  /\ UNCHANGED <<input, pre, first, callVars, emitted, fault, serialized, fsVars, loopVars, outcome, cause>>

\* StatsDoc with the Decimal turned into a float before it is written
StatsDocAsFloat(st) ==
  [rows_in |-> IntToText(st.rows_in), rows_out |-> IntToText(st.rows_out),
   total_qty |-> IntToText(st.total_qty),
   gross_revenue |-> DecToText(RoundTo(st.gross_revenue, 17))]

\* json.dumps of the four fields, the Decimal as str()
StatsDoc(st) ==
  [rows_in |-> IntToText(st.rows_in), rows_out |-> IntToText(st.rows_out),
   total_qty |-> IntToText(st.total_qty),
   gross_revenue |-> DecToText(st.gross_revenue)]

\* WriteStats with rows_in taken from the count of the records read, not
\* from the Stats value
WriteStatsFromCounters ==
  /\ pc = "write"
  /\ statsdoc' = [exists |-> TRUE, doc |-> StatsDoc([stats EXCEPT !.rows_in = i - 2])]
  /\ serialized' = serialized + 1
  /\ pc' = "return"
  /\ UNCHANGED <<input, pre, first, callVars, emitted, fault, dirs, clean, fin, fout, loopVars, outcome, cause>>

\* WriteStats moved into the with statement, before the streams are closed
WriteStatsInScope ==
  /\ pc = "close"
  /\ statsdoc' = [exists |-> TRUE, doc |-> StatsDoc(stats)]
  /\ serialized' = serialized + 1
  /\ pc' = "return"
  /\ UNCHANGED <<input, pre, first, callVars, emitted, fault, dirs, clean, fin, fout, loopVars, outcome, cause>>

\* out_stats_json.write_text(...)
WriteStats ==
  /\ pc = "write"
  /\ statsdoc' = [exists |-> TRUE, doc |-> StatsDoc(stats)]
  /\ pc' = "return"
  /\ serialized' = serialized + 1
  /\ UNCHANGED <<input, pre, first, callVars, emitted, fault, dirs, clean, fin, fout, loopVars, outcome, cause>>

\* WriteStatsFail with OutputWriteErr caught by the handler at the end of
\* run_pipeline and turned into InputFormatErr
WriteStatsFailRewrapped ==
  /\ pc = "write"
  /\ statsdoc' \in {statsdoc, [exists |-> TRUE, doc |-> EmptyDoc]}
  /\ Fail("InputFormatErr", "OutputWriteErr")
  /\ fault' = pc
  /\ serialized' = serialized + 1
  /\ UNCHANGED <<input, pre, first, callVars, emitted, dirs, clean, loopVars>>

\* write_text raises OSError: at open (the document is as it was) or while
\* writing (the document is truncated)
WriteStatsFail ==
  /\ pc = "write"
  /\ statsdoc' \in {statsdoc, [exists |-> TRUE, doc |-> EmptyDoc]}
  /\ Fail("OutputWriteErr", "OSError")
  /\ fault' = pc
  /\ serialized' = serialized + 1
  /\ UNCHANGED <<input, pre, first, callVars, emitted, dirs, clean, loopVars>>

\* return stats
Return ==
  /\ pc = "return"
  /\ outcome' = "Stats"
  /\ pc' = "done"
  /\ emitted' = Emit(emitted, logcfg, <<Event(INFO, "Processing Completed")>>)
  /\ UNCHANGED <<input, pre, first, callVars, fault, serialized, fsVars, fin, fout, loopVars, cause>>

Next ==
  \/ CheckInputMissing \/ CheckInputFound
  \/ MakeDirs \/ MakeDirsFail
  \/ OpenInput \/ OpenInputFail
  \/ OpenOutput \/ OpenOutputFail
  \/ WriteHeader
  \/ HeaderBad \/ HeaderOk
  \/ YieldRow \/ RejectRecord \/ AbortRecord \/ EndOfInput
  \/ ConsumeRow
  \/ IOFail
  \/ BuildStats \/ CloseScope
  \/ WriteStats \/ WriteStatsFail
  \/ Return

Spec == Init /\ [][Next]_vars

(***************************************************************************)
(* A second call of run_pipeline on the same input.                        *)
(***************************************************************************)
\* the caller calls run_pipeline again on the same input file: the outputs
\* are as the first call left them, or as any other earlier run left them;
\* the locals of run_pipeline start afresh
Rerun ==
  /\ pc = "done"
  /\ first = NoFirst
  /\ first' = [outcome |-> outcome, stats |-> stats, fault |-> fault, pre |-> pre,
               opened |-> fout # "unopened", clean |-> clean,
               serialized |-> serialized, statsdoc |-> statsdoc, log |-> log,
               logcfg |-> logcfg, emitted |-> emitted]
  /\ \E p \in PreStates \cup {[dirs |-> dirs, clean |-> clean, statsdoc |-> statsdoc]} :
       /\ pre' = p
       /\ dirs' = p.dirs
       /\ clean' = p.clean
       /\ statsdoc' = p.statsdoc
  /\ pc' = "start"
  /\ fin' = "unopened"
  /\ fout' = "unopened"
  /\ pos' = 0
  /\ i' = 2
  /\ row' = NoRow
  /\ last' = NoVerdict
  /\ rows_in' = 0
  /\ rows_out' = 0
  /\ total_qty' = 0
  /\ gross' = ParseDecimal(<<"0">>).d
  /\ stats' = NoStats
  /\ log' = <<>>
  /\ outcome' = "running"
  /\ cause' = "none"
  /\ fault' = "none"
  /\ serialized' = 0
  /\ emitted' = <<>>
  /\ UNCHANGED <<input, callVars>>

NextTwice == Next \/ Rerun

\* the entries of the files that are run twice: a rejected record, a record
\* that is normalised, a record that aborts the run, a record whose product
\* is rounded, and a blank line
TwiceEntries ==
  { Rec(<<>>, <<"1">>, <<"1", ".", "0", "0">>),
    Rec(<<" ", "B", " ">>, <<" ", "1", " ">>, <<" ", "0", ".", "5", " ">>),
    Rec(<<"A", "1">>, <<"1">>, <<"N", "a", "N">>),
    Rec(<<"A", "1">>, <<"3">>, LongPrice),
    BlankLine }

InitTwice ==
  /\ Init
  /\ \A k \in 1..Len(input.entries) :
       input.entries = ExampleFile \/ input.entries[k] \in TwiceEntries

SpecTwice == InitTwice /\ [][NextTwice]_vars

TypeOK ==
  /\ pc \in {"start", "mkdir", "open_in", "open_out", "header", "check", "loop",
             "body", "stats", "close", "write", "return", "done"}
  /\ fin \in {"unopened", "open", "closed"}
  /\ fout \in {"unopened", "open", "closed"}
  /\ pos \in 0..Len(input.entries)
  /\ rows_in \in Nat /\ rows_out \in Nat /\ total_qty \in Nat

(***************************************************************************)
(* The callers of run_pipeline and the logger.                             *)
(***************************************************************************)
\* configure_logging(level), called any number of times before the second
\* call of run_pipeline: the level of the logger is set; the two handlers
\* are made, at that level, by the first call only
ConfigureLogging ==
  /\ pc = "start"
  /\ first # NoFirst
  /\ exit_status = NoMain
  /\ \E level \in Levels : logcfg' = Configure(logcfg, level)
  /\ logcfg' # logcfg
  /\ UNCHANGED <<input, pre, first, emitted, exit_status, orderVars,
                 fault, serialized, fsVars, fin, fout, loopVars, pc, outcome, cause>>

\* the same call once more: the same input, the outputs as they were before
\* the first call, after a first call that met no I/O failure
RunAgain ==
  /\ fault = "none"
  /\ Rerun
  /\ pre' = pre

NextLogging == Next \/ RunAgain \/ ConfigureLogging

\* the entries of the files that are run under two logging configurations:
\* a rejected record, a record that is normalised, a record that aborts the
\* run
LoggingEntries ==
  { Rec(<<>>, <<"1">>, <<"1", ".", "0", "0">>),
    Rec(<<" ", "B", " ">>, <<" ", "1", " ">>, <<" ", "0", ".", "5", " ">>),
    Rec(<<"A", "1">>, <<"1">>, <<"N", "a", "N">>) }

InitLogging ==
  /\ Init
  /\ \A k \in 1..Len(input.entries) :
       input.entries = ExampleFile \/ input.entries[k] \in LoggingEntries

SpecLogging == InitLogging /\ [][NextLogging]_vars

\* the classes derived from PipelineErr
PipelineErrs == {"InputNotFoundErr", "InputFormatErr", "ValidationErr", "OutputWriteErr"}

\* main up to the call of run_pipeline: configure_logging(), log.info, and
\* the arguments name an input file
MainStart ==
  /\ pc = "start"
  /\ first = NoFirst
  /\ exit_status = NoMain
  /\ logcfg' = Configure(logcfg, INFO)
  /\ emitted' = Emit(emitted, logcfg', <<Event(INFO, "starting log")>>)
  /\ exit_status' = [main |-> "running", status |-> 0]
  /\ UNCHANGED <<input, pre, first, orderVars,
                 fault, serialized, fsVars, fin, fout, loopVars, pc, outcome, cause>>

\* main is given no input path: SystemExit(2), run_pipeline is not called
MainNoPath ==
  /\ pc = "start"
  /\ first = NoFirst
  /\ exit_status = NoMain
  /\ logcfg' = Configure(logcfg, INFO)
  /\ emitted' = Emit(emitted, logcfg', <<Event(INFO, "starting log")>>)
  /\ exit_status' = [main |-> "exited", status |-> 2]
  /\ outcome' = "not called"
  /\ pc' = "done"
  /\ UNCHANGED <<input, pre, first, orderVars,
                 fault, serialized, fsVars, fin, fout, loopVars, cause>>

\* run_pipeline has ended under main: main returns (status 0), or catches
\* PipelineErr, logs it and raises SystemExit(2), or the exception is not
\* caught and the interpreter ends with status 1
MainExit ==
  /\ pc = "done"
  /\ exit_status.main = "running"
  /\ \/ /\ outcome = "Stats"
        /\ exit_status' = [main |-> "exited", status |-> 0]
        /\ UNCHANGED emitted
     \/ /\ outcome \in PipelineErrs
        /\ emitted' = Emit(emitted, logcfg, <<Event(ERROR, "Pipeline failed: %s")>>)
        /\ exit_status' = [main |-> "exited", status |-> 2]
     \/ /\ outcome \notin PipelineErrs \cup {"Stats"}
        /\ exit_status' = [main |-> "exited", status |-> 1]
        /\ UNCHANGED emitted
  /\ UNCHANGED <<input, pre, first, logcfg, orderVars,
                 fault, serialized, fsVars, fin, fout, loopVars, pc, outcome, cause>>

NextMain == MainStart \/ MainNoPath \/ Next \/ MainExit

SpecMain == InitLogging /\ [][NextMain]_vars

(***************************************************************************)
(* A call of run_pipeline on the clean output of an earlier call.          *)
(***************************************************************************)
\* the records DictReader returns for the data lines of a clean output
AsEntries(rows) == [k \in 1..Len(rows) |-> Rec(rows[k][1], rows[k][2], rows[k][3])]

\* after a call that returned, the caller calls run_pipeline with the clean
\* output of that call as input_csv and with other output locations; the
\* locals of run_pipeline start afresh
RunOnClean ==
  /\ pc = "done"
  /\ outcome = "Stats"
  /\ first = NoFirst
  /\ first' = [outcome |-> outcome, stats |-> stats, fault |-> fault, pre |-> pre,
               opened |-> fout # "unopened", clean |-> clean,
               serialized |-> serialized, statsdoc |-> statsdoc, log |-> log,
               logcfg |-> logcfg, emitted |-> emitted]
  /\ input' = [exists |-> TRUE, header |-> clean.header, entries |-> AsEntries(clean.rows)]
  /\ \E p \in PreStates :
       /\ pre' = p
       /\ dirs' = p.dirs
       /\ clean' = p.clean
       /\ statsdoc' = p.statsdoc
  /\ pc' = "start"
  /\ fin' = "unopened"
  /\ fout' = "unopened"
  /\ pos' = 0
  /\ i' = 2
  /\ row' = NoRow
  /\ last' = NoVerdict
  /\ rows_in' = 0
  /\ rows_out' = 0
  /\ total_qty' = 0
  /\ gross' = ParseDecimal(<<"0">>).d
  /\ stats' = NoStats
  /\ log' = <<>>
  /\ outcome' = "running"
  /\ cause' = "none"
  /\ fault' = "none"
  /\ serialized' = 0
  /\ emitted' = <<>>
  /\ UNCHANGED callVars

NextOnClean == Next \/ RunOnClean

SpecOnClean == Init /\ [][NextOnClean]_vars

(***************************************************************************)
(* The fail-fast variant, day06_pipes_contactlib: the same run_pipeline,   *)
(* whose parse_rows re-raises the ValidationError and whose loop body does *)
(* not log the row.  Its exception classes end in Error, not Err; the      *)
(* steps it shares with the logging variant keep the names used above.     *)
(***************************************************************************)
\* except ValidationError: raise; the exception carries line_no and leaves
\* the generator, the loop and the with statement
RaiseValidation ==
  /\ pc = "loop"
  /\ \E k \in {NextIndex(input.entries, pos)} \ {0} :
       \E v \in {Validate(input.entries[k], i)} :
              /\ v.tag = "ValidationErr"
              /\ last' = Verdict(v, k)
              /\ pos' = k
              /\ Fail("ValidationError", "none")
  /\ UNCHANGED <<input, pre, first, callVars, emitted, fault, serialized, fsVars, i, row, rows_in, rows_out,
                 total_qty, gross, stats, log>>

\* the loop body of the variant: the four counters, then writer.writerow
ConsumeRowQuiet ==
  /\ pc = "body"
  /\ rows_in' = rows_in + 1
  /\ rows_out' = rows_out + 1
  /\ total_qty' = total_qty + row.qty
  /\ gross' = DecAdd(gross, DecMul(DecFromInt(row.qty), row.unit_price))
  /\ clean' = [clean EXCEPT !.rows = WriteRow(clean.rows, RowLine(row))]
  /\ row' = NoRow
  /\ pc' = "loop"
  /\ UNCHANGED <<input, pre, first, callVars, emitted, fault, serialized, dirs, statsdoc, fin, fout, pos, i, last, stats, log,
                 outcome, cause>>

\* log.info("Done. ..."); return stats
ReturnDone ==
  /\ pc = "return"
  /\ outcome' = "Stats"
  /\ pc' = "done"
  /\ emitted' = Emit(emitted, logcfg, <<Event(INFO, "Done.")>>)
  /\ UNCHANGED <<input, pre, first, callVars, fault, serialized, fsVars, fin, fout, loopVars, cause>>

NextFailFast ==
  \/ CheckInputMissing \/ CheckInputFound
  \/ MakeDirs \/ MakeDirsFail
  \/ OpenInput \/ OpenInputFail
  \/ OpenOutput \/ OpenOutputFail
  \/ WriteHeader
  \/ HeaderBad \/ HeaderOk
  \/ YieldRow \/ RaiseValidation \/ AbortRecord \/ EndOfInput
  \/ ConsumeRowQuiet
  \/ IOFail
  \/ BuildStats \/ CloseScope
  \/ WriteStats \/ WriteStatsFail
  \/ ReturnDone

SpecFailFast == Init /\ [][NextFailFast]_vars

(***************************************************************************)
(* The Order of day02_files and day03_files: add_item, and in day03 the    *)
(* status with submit and mark_paid.                                       *)
(***************************************************************************)
\* the most the quantities of an order add up to in the model
MaxQuantity == 4

Skus == {"A", "B", " A"}

UnitPrices == {1, 2}

\* LineItem(sku, unit_price, quantity): __post_init__ has accepted it
LineItem(sku, unit_price, quantity) ==
  [sku |-> sku, unit_price |-> unit_price, quantity |-> quantity]

Call(method) == [method |-> method, sku |-> "", unit_price |-> 0, quantity |-> 0]

RECURSIVE TotalItems(_)
TotalItems(its) ==
  IF its = <<>> THEN 0 ELSE its[Len(its)].quantity + TotalItems(SubSeq(its, 1, Len(its) - 1))

\* the index of the first item with this sku, 0 if there is none
FirstWithSku(its, sku) ==
  LET same == {k \in 1..Len(its) : its[k].sku = sku}
  IN IF same = {} THEN 0 ELSE CHOOSE k \in same : \A j \in same : k <= j

pipeVars == <<input, pre, first, logcfg, emitted, exit_status, fault, serialized, fsVars,
              fin, fout, loopVars, pc, outcome, cause>>

\* AddItem that appends whatever the order holds
AddItemAppend ==
  /\ \E sku \in Skus, unit_price \in UnitPrices, quantity \in 1..MaxQuantity :
       /\ TotalItems(items) + quantity <= MaxQuantity
       /\ called' = [method |-> "add_item", sku |-> sku, unit_price |-> unit_price,
                     quantity |-> quantity]
       /\ items' = Append(items, LineItem(sku, unit_price, quantity))
  /\ raised' = "none"
  /\ UNCHANGED <<order_status, pipeVars>>

\* Order.add_item(item): the first item with the same sku is replaced by
\* one with the quantities added and its own unit price, else the item is
\* appended
AddItem ==
  /\ \E sku \in Skus, unit_price \in UnitPrices, quantity \in 1..MaxQuantity :
       /\ TotalItems(items) + quantity <= MaxQuantity
       /\ called' = [method |-> "add_item", sku |-> sku, unit_price |-> unit_price,
                     quantity |-> quantity]
       /\ \E k \in {FirstWithSku(items, sku)} :
            items' = IF k = 0
                     THEN Append(items, LineItem(sku, unit_price, quantity))
                     ELSE [items EXCEPT ![k] = LineItem(items[k].sku, items[k].unit_price,
                                                       items[k].quantity + quantity)]
  /\ raised' = "none"
  /\ UNCHANGED <<order_status, pipeVars>>

\* Order.submit()
Submit ==
  /\ called' = Call("submit")
  /\ IF order_status # "new"
     THEN raised' = "ValueError" /\ UNCHANGED order_status
     ELSE raised' = "none" /\ order_status' = "SUBMITTED"
  /\ UNCHANGED <<items, pipeVars>>

\* MarkPaid without the check of the status
MarkPaidAnyStatus ==
  /\ called' = Call("mark_paid")
  /\ raised' = "none"
  /\ order_status' = "PAID"
  /\ UNCHANGED <<items, pipeVars>>

\* Order.mark_paid()
MarkPaid ==
  /\ called' = Call("mark_paid")
  /\ IF order_status # "SUBMITTED"
     THEN raised' = "ValueError" /\ UNCHANGED order_status
     ELSE raised' = "none" /\ order_status' = "PAID"
  /\ UNCHANGED <<items, pipeVars>>

NextOrder == AddItem \/ Submit \/ MarkPaid

\* an Order made with the default status and no items
InitOrder ==
  /\ Init
  /\ ~input.exists
  /\ pre.clean = Absent

SpecOrder == InitOrder /\ [][NextOrder]_vars

(***************************************************************************)
(* What the claims speak of.                                               *)
(***************************************************************************)
\* the verdict of parse_rows on an entry, whatever its number
Accepted(e) == e.kind = "rec" /\ Validate(e, 0).tag = "Row"

Rejected(e) == e.kind = "rec" /\ Validate(e, 0).tag = "ValidationErr"

\* how many of the first n entries are accepted
AcceptedCount(es, n) == Cardinality({k \in 1..n : Accepted(es[k])})

\* the clean-output lines of the accepted records among the first n entries
RECURSIVE AcceptedLines(_, _)
AcceptedLines(es, n) ==
  IF n = 0 THEN <<>>
  ELSE IF Accepted(es[n])
       THEN Append(AcceptedLines(es, n - 1), RowLine(Validate(es[n], 0).row))
       ELSE AcceptedLines(es, n - 1)

\* the sum of qty over the accepted records
RECURSIVE SumQty(_, _)
SumQty(es, n) ==
  IF n = 0 THEN 0
  ELSE IF Accepted(es[n]) THEN SumQty(es, n - 1) + Validate(es[n], 0).row.qty
       ELSE SumQty(es, n - 1)

\* the sum of qty * unit_price over the accepted records, without any rounding
RECURSIVE ExactGross(_, _)
ExactGross(es, n) ==
  IF n = 0 THEN Finite(0, <<0>>, 0)
  ELSE IF Accepted(es[n])
       THEN DecAddExact(ExactGross(es, n - 1),
                        DecMulExact(DecFromInt(Validate(es[n], 0).row.qty),
                                    Validate(es[n], 0).row.unit_price))
       ELSE ExactGross(es, n - 1)

\* the record the latest verdict is about
LastRaw == input.entries[last.at]

(***************************************************************************)
(* C1: after each record has been fully processed rows_in = rows_out = the *)
(* number of records accepted so far, and a returned Stats has             *)
(* rows_in = rows_out = N, the number of accepted records of the input,    *)
(* however many rejected records lie between them.                         *)
(***************************************************************************)
C1_RowsInIsRowsOutIsAccepted ==
  /\ rows_in = rows_out
  /\ row = NoRow => rows_in = AcceptedCount(input.entries, pos)
  /\ outcome = "Stats" =>
       /\ stats.rows_in = AcceptedCount(input.entries, Len(input.entries))
       /\ stats.rows_out = AcceptedCount(input.entries, Len(input.entries))

\* a run returned Stats for an input with a rejected record before an accepted one
C1_Witness ==
  /\ outcome = "Stats"
  /\ stats.rows_out >= 1
  /\ \E j, k \in 1..Len(input.entries) :
       j < k /\ Rejected(input.entries[j]) /\ Accepted(input.entries[k])

(***************************************************************************)
(* C2: on a successful run gross_revenue is the exact sum of               *)
(* qty * unit_price over the accepted rows, with no rounding, and          *)
(* total_qty the sum of their qty.                                         *)
(***************************************************************************)
C2_GrossIsExactSum ==
  outcome = "Stats" =>
    /\ stats.total_qty = SumQty(input.entries, Len(input.entries))
    /\ DecEq(stats.gross_revenue, ExactGross(input.entries, Len(input.entries)))

(***************************************************************************)
(* C3: for an input with a valid header, and without any I/O failure, the  *)
(* run examines every record and returns Stats.                            *)
(***************************************************************************)
C3_RunReturnsStats ==
  (/\ pc = "done"
   /\ input.exists
   /\ HeaderValid(input.header)
   /\ cause # "OSError"
   /\ outcome # "OSError")
  => (outcome = "Stats" /\ pos = Len(input.entries))

(***************************************************************************)
(* C4: the step that processes a rejected record leaves rows_in, rows_out, *)
(* total_qty, gross_revenue and the clean output as they were.             *)
(***************************************************************************)
C4_RejectedLeavesNoTrace ==
  [][(last' # last /\ last'.tag = "ValidationErr")
       => UNCHANGED <<rows_in, rows_out, total_qty, gross, clean>>]_vars

\* a record was rejected after a row was counted and written
C4_Witness ==
  /\ last.tag = "ValidationErr"
  /\ pos = last.at
  /\ rows_out >= 1
  /\ Len(clean.rows) >= 1

(***************************************************************************)
(* C5: whatever the fields of a record hold, the outcome of its validation *)
(* is a Row or a ValidationFailure, never another failure.                 *)
(***************************************************************************)
C5_ValidationIsTotal == last.tag \in {"none", "Row", "ValidationErr"}

(***************************************************************************)
(* C6: the checks are applied in the order sku, qty integer, qty > 0,      *)
(* unit_price decimal, unit_price >= 0; a rejected record carries the      *)
(* message of the earliest violated check, and a record that violates a    *)
(* check is rejected without its later fields being examined.              *)
(***************************************************************************)
AllWhitespace(t) == \A k \in 1..Len(t) : t[k] \in Whitespace

\* the checks the record violates, each read on its own field
Violated(raw) ==
  {c \in 1..5 :
     \/ c = 1 /\ AllWhitespace(OrEmpty(raw.sku))
     \/ c = 2 /\ ~ParseInt(OrEmpty(raw.qty)).ok
     \/ c = 3 /\ ParseInt(OrEmpty(raw.qty)).ok /\ ParseInt(OrEmpty(raw.qty)).val <= 0
     \/ c = 4 /\ ~ParseDecimal(OrEmpty(raw.unit_price)).ok
     \/ c = 5 /\ ParseDecimal(OrEmpty(raw.unit_price)).ok
              /\ ParseDecimal(OrEmpty(raw.unit_price)).d.kind # "NaN"
              /\ DecLtZero(ParseDecimal(OrEmpty(raw.unit_price)).d)}

FirstViolated(raw) == CHOOSE c \in Violated(raw) : \A d \in Violated(raw) : c <= d

MessageOf(c, raw) ==
  CASE c = 1 -> MsgSku
    [] c = 2 -> MsgQtyInt(Strip(OrEmpty(raw.qty)))
    [] c = 3 -> MsgQtyPos
    [] c = 4 -> MsgPriceDec(Strip(OrEmpty(raw.unit_price)))
    [] c = 5 -> MsgPriceNeg

C6_FirstFailureWins ==
  last.tag # "none" =>
    /\ Violated(LastRaw) # {} => /\ last.tag = "ValidationErr"
                                 /\ last.msg = MessageOf(FirstViolated(LastRaw), LastRaw)
    /\ Violated(LastRaw) = {} => last.tag # "ValidationErr"

\* a record that violates two checks was rejected
C6_Witness ==
  /\ last.tag = "ValidationErr"
  /\ Cardinality(Violated(LastRaw)) >= 2

(***************************************************************************)
(* C7: every Row that parse_rows yields and every row of the clean output  *)
(* has a non-empty trimmed sku, an integer qty > 0 and a unit_price >= 0.  *)
(***************************************************************************)
GoodRow(r) ==
  /\ r.sku # <<>>
  /\ Strip(r.sku) = r.sku
  /\ r.qty > 0
  /\ r.unit_price.kind # "NaN"
  /\ ~DecLtZero(r.unit_price)

GoodLine(l) ==
  /\ l[1] # <<>>
  /\ Strip(l[1]) = l[1]
  /\ ParseInt(l[2]).ok
  /\ ParseInt(l[2]).val > 0
  /\ ParseDecimal(l[3]).ok
  /\ ParseDecimal(l[3]).d.kind # "NaN"
  /\ ~DecLtZero(ParseDecimal(l[3]).d)

C7_RowsAreValid ==
  /\ last.tag = "Row" => GoodRow(Validate(LastRaw, 0).row)
  /\ row # NoRow => GoodRow(row)
  /\ fout # "unopened" => \A k \in 1..Len(clean.rows) : GoodLine(clean.rows[k])

\* a row whose sku came with blanks around it was written
C7_Witness ==
  /\ fout # "unopened"
  /\ \E k \in 1..Len(clean.rows) :
       \E j \in 1..pos : /\ Accepted(input.entries[j])
                         /\ input.entries[j].sku # clean.rows[k][1]
                         /\ Strip(input.entries[j].sku) = clean.rows[k][1]

(***************************************************************************)
(* C8: the line number of a ValidationFailure is the line of the input     *)
(* file on which the record starts (the header is line 1), at least 2,     *)
(* whatever blank lines and multi-line records precede it.                 *)
(***************************************************************************)
C8_LineNumberIsFilePosition ==
  last.tag = "ValidationErr" =>
    /\ last.line_no >= 2
    /\ last.line_no = LineOf(input.entries, last.at)

(***************************************************************************)
(* C9: the data lines of the clean output are the accepted records in      *)
(* input order, and a yielded row is written before the next record is     *)
(* validated: only the row the loop body holds can be missing.             *)
(***************************************************************************)
C9_OutputIsAcceptedInOrder ==
  fout # "unopened" =>
    clean.rows = IF row = NoRow THEN AcceptedLines(input.entries, pos)
                 ELSE AcceptedLines(input.entries, pos - 1)

\* a finished run wrote two different rows and rejected a record
C9_Witness ==
  /\ outcome = "Stats"
  /\ Len(clean.rows) = 2
  /\ clean.rows[1] # clean.rows[2]
  /\ Len(log) >= 1

(***************************************************************************)
(* C10: when the input does not exist the run fails with InputNotFound and *)
(* the clean output, the stats document and the parent directories are as  *)
(* the call found them; no stream is opened.                               *)
(***************************************************************************)
C10_MissingInputTouchesNothing ==
  ~input.exists =>
    /\ outcome \in {"running", "InputNotFoundErr"}
    /\ pc = "done" => outcome = "InputNotFoundErr"
    /\ dirs = pre.dirs
    /\ clean = pre.clean
    /\ statsdoc = pre.statsdoc
    /\ fin = "unopened"
    /\ fout = "unopened"

\* the run failed with InputNotFound where no output directory existed
C10_Witness ==
  /\ outcome = "InputNotFoundErr"
  /\ ~pre.dirs.clean
  /\ ~pre.dirs.stats

(***************************************************************************)
(* C11: when the header lacks one of sku, qty, unit_price, or the input    *)
(* has no header line, no record is ever read or validated and the stats   *)
(* document is never written; the run fails with InputFormat and, when no  *)
(* I/O failure came in between, the clean output is the header line alone. *)
(***************************************************************************)
HeaderLacksColumn(h) ==
  \/ h = NoHeader
  \/ \E c \in {"sku", "qty", "unit_price"} : \A k \in 1..Len(h) : h[k] # c

HeaderOnly == [exists |-> TRUE, header |-> HeaderCols, rows |-> <<>>]

C11_BadHeaderIsFatal ==
  (input.exists /\ HeaderLacksColumn(input.header)) =>
    /\ pos = 0 /\ last = NoVerdict /\ row = NoRow /\ log = <<>>
    /\ rows_in = 0 /\ rows_out = 0
    /\ statsdoc = pre.statsdoc /\ serialized = 0
    /\ pc = "done" => outcome = "InputFormatErr" \/ fault = "mkdir"
    /\ (pc = "done" /\ fault = "none") => cause = "none" /\ clean = HeaderOnly

\* a run over a file with a record under a header without qty failed, and
\* left the header alone where an earlier run had left a row
C11_Witness ==
  /\ pc = "done"
  /\ fault = "none"
  /\ outcome = "InputFormatErr"
  /\ input.header = ShortHeader
  /\ Len(input.entries) = 1
  /\ pre.clean = OldClean
  /\ clean = HeaderOnly

(***************************************************************************)
(* C12: the stats document is written only after the input stream and the  *)
(* clean-output stream were closed: while the write is under way, and once *)
(* the document differs from what the call found, both streams are closed. *)
(***************************************************************************)
C12_StatsAfterScopeClosed ==
  (pc \in {"write", "return"} \/ serialized > 0 \/ statsdoc # pre.statsdoc)
    => (fin = "closed" /\ fout = "closed")

\* the stats document is about to be written over the one of an earlier run
C12_Witness ==
  /\ pc = "write"
  /\ fin = "closed"
  /\ fout = "closed"
  /\ statsdoc = OldDoc
  /\ rows_out >= 1

(***************************************************************************)
(* C13: a run that fails before the pass has completed (InputNotFound,     *)
(* header failure, I/O failure in the pass, or any other exception) leaves *)
(* the stats document as the call found it, absent or with its old content.*)
(***************************************************************************)
C13_FailedPassLeavesStats ==
  /\ pc \notin {"return", "done"} => statsdoc = pre.statsdoc
  /\ (pc = "done" /\ outcome \notin {"Stats", "OutputWriteErr"})
       => (statsdoc = pre.statsdoc /\ serialized = 0)

\* an I/O failure after a record was read left the old stats document
C13_Witness ==
  /\ pc = "done"
  /\ outcome = "InputFormatErr"
  /\ fault \in {"loop", "body", "close"}
  /\ pos >= 1
  /\ pre.statsdoc = OldDoc
  /\ statsdoc = OldDoc

(***************************************************************************)
(* C14: when control is back with the caller no stream is open, on every   *)
(* exit path; a stream is never open before it was acquired in order.      *)
(***************************************************************************)
C14_StreamsReleased ==
  /\ pc = "done" => (fin # "open" /\ fout # "open")
  /\ fout # "unopened" => fin # "unopened"

\* the output could not be acquired: the input, acquired before, is closed
C14_Witness ==
  /\ pc = "done"
  /\ fault = "open_out"
  /\ fin = "closed"
  /\ fout = "unopened"

(***************************************************************************)
(* C15: the header line is the first thing written to the clean output,    *)
(* right after the stream was acquired: once the header write has been     *)
(* done the output starts with the header line, whatever follows (a header *)
(* failure, rejected records, an I/O failure, an abort), and no data row   *)
(* is in the output without it.                                            *)
(***************************************************************************)
C15_HeaderFirst ==
  fout # "unopened" =>
    /\ pc = "header" => clean = Truncated
    /\ (pc # "header" /\ fault # "header") => clean.header = HeaderCols
    /\ clean.rows # <<>> => clean.header = HeaderCols

\* a run that failed after it wrote a row left the header and the row
C15_Witness ==
  /\ pc = "done"
  /\ outcome \notin {"Stats", "OutputWriteErr"}
  /\ fout = "closed"
  /\ clean.header = HeaderCols
  /\ Len(clean.rows) >= 1

C17_StatsFailureIsOutputWrite ==
  /\ fault = "write" =>
       /\ pc = "done"
       /\ outcome = "OutputWriteErr"
       /\ cause = "OSError"
       /\ fout = "closed"
       /\ clean.exists
       /\ clean.header = HeaderCols
       /\ clean.rows = AcceptedLines(input.entries, Len(input.entries))
  /\ outcome = "OutputWriteErr" => fault = "write"

\* the write failed after it had truncated the document; a row is in the output
C17_Witness ==
  /\ fault = "write"
  /\ outcome = "OutputWriteErr"
  /\ Len(clean.rows) >= 1
  /\ statsdoc = [exists |-> TRUE, doc |-> EmptyDoc]

(***************************************************************************)
(* C18: a call of run_pipeline that fails, fails with InputNotFound,       *)
(* InputFormat or OutputWrite, at whatever step, the making of the parent  *)
(* directories included.                                                   *)
(***************************************************************************)
C18_OnlyTaxonomyKinds ==
  pc = "done" =>
    outcome \in {"Stats", "InputNotFoundErr", "InputFormatErr", "OutputWriteErr"}

(***************************************************************************)
(* C19: once the loop has ended the four counters do not change, and once  *)
(* the Stats value is built it does not change; the value is serialized at *)
(* most once in a run and exactly once in a run that returns, and the      *)
(* value returned is the value the stats document was written from.        *)
(***************************************************************************)
C19_StatsFrozenSerializedOnce ==
  /\ [](/\ serialized <= 1
        /\ outcome = "Stats" =>
             /\ serialized = 1
             /\ statsdoc = [exists |-> TRUE, doc |-> StatsDoc(stats)]
             /\ stats = [rows_in |-> rows_in, rows_out |-> rows_out,
                         total_qty |-> total_qty, gross_revenue |-> gross])
  /\ [][/\ pc \in {"stats", "close", "write", "return"}
             => UNCHANGED <<rows_in, rows_out, total_qty, gross>>
        /\ pc \in {"close", "write", "return"} => stats' = stats]_vars

\* a run that rejected a record and accepted another returned its Stats
C19_Witness ==
  /\ outcome = "Stats"
  /\ serialized = 1
  /\ stats.rows_out >= 1
  /\ Len(log) >= 1

(***************************************************************************)
(* C20: a second call on the same input, from the outputs the first call   *)
(* left or from those of any other earlier run, ends as the first call     *)
(* did when neither met an I/O failure: the same outcome and the same      *)
(* Stats, the same clean output when the call wrote one, the same stats    *)
(* document when the call wrote one, and the same warnings.                *)
(***************************************************************************)
C20_SecondRunIsIdentical ==
  (first # NoFirst /\ first.fault = "none" /\ pc = "done" /\ fault = "none") =>
    /\ outcome = first.outcome
    /\ stats = first.stats
    /\ (fout # "unopened") = first.opened
    /\ fout # "unopened" => clean = first.clean
    /\ serialized = first.serialized
    /\ serialized > 0 => statsdoc = first.statsdoc
    /\ log = first.log

\* the two calls started from different outputs, and both returned Stats for
\* an input with an accepted and a rejected record
C20_Witness ==
  /\ first # NoFirst
  /\ first.fault = "none"
  /\ fault = "none"
  /\ pc = "done"
  /\ outcome = "Stats"
  /\ first.pre.clean # pre.clean
  /\ Len(clean.rows) >= 1
  /\ Len(log) >= 1

(***************************************************************************)
(* C21: two calls on the same input and the same outputs that met no I/O   *)
(* failure, whatever the logging configuration of each (none, any level of *)
(* the logger, any level of the handlers), end with the same outcome, the  *)
(* same Stats, the same clean output, the same stats document and the same *)
(* rejections.                                                             *)
(***************************************************************************)
C21_LoggingHasNoInfluence ==
  (/\ first # NoFirst /\ pc = "done" /\ pre = first.pre
   /\ first.fault = "none" /\ fault = "none") =>
    /\ outcome = first.outcome
    /\ stats = first.stats
    /\ clean = first.clean
    /\ statsdoc = first.statsdoc
    /\ log = first.log

\* the two calls ran under different configurations and their handlers put
\* out different records; both returned Stats for an input with an accepted
\* and a rejected record
C21_Witness ==
  /\ first # NoFirst
  /\ pc = "done"
  /\ pre = first.pre
  /\ first.fault = "none"
  /\ fault = "none"
  /\ logcfg # first.logcfg
  /\ emitted # first.emitted
  /\ outcome = "Stats"
  /\ Len(clean.rows) >= 1
  /\ Len(log) >= 1

(***************************************************************************)
(* C22: at every moment of a run the log calls of severity warning made so *)
(* far are, in input order, the two calls for each rejected record read so *)
(* far: the first with the line of the file on which the record starts,    *)
(* the second with its failure message; accepted records add nothing.      *)
(***************************************************************************)
\* the reports of the rejected records among the first n entries
RECURSIVE RejectionReports(_, _)
RejectionReports(es, n) ==
  IF n = 0 THEN <<>>
  ELSE IF Rejected(es[n])
       THEN RejectionReports(es, n - 1)
              \o Warnings(LineOf(es, n), Validate(es[n], 0).msg)
       ELSE RejectionReports(es, n - 1)

C22_RejectionsReported == log = RejectionReports(input.entries, pos)

(***************************************************************************)
(* C23: when main has ended after a call of run_pipeline, its exit status  *)
(* is zero if the call returned, and otherwise it is not zero and main has *)
(* logged the failure.                                                     *)
(***************************************************************************)
\* main has handed the failure to the logger
FailureLogged == \E k \in 1..Len(emitted) : emitted[k].level = ERROR

C23_ExitStatusTellsOutcome ==
  (exit_status.main = "exited" /\ outcome # "not called") =>
    IF outcome = "Stats"
    THEN exit_status.status = 0
    ELSE exit_status.status # 0 /\ FailureLogged

(***************************************************************************)
(* C24: the stats document of a run that returned has exactly the four     *)
(* keys rows_in, rows_out, total_qty and gross_revenue, and reading it     *)
(* back (the three integers, and the text of gross_revenue as a decimal)   *)
(* gives the Stats that was returned, digit for digit.                     *)
(***************************************************************************)
\* what a reader of the stats document gets
ParsedStats(doc) ==
  [rows_in |-> ParseInt(doc.rows_in).val, rows_out |-> ParseInt(doc.rows_out).val,
   total_qty |-> ParseInt(doc.total_qty).val,
   gross_revenue |-> ParseDecimal(doc.gross_revenue).d]

C24_StatsDocRoundTrips ==
  outcome = "Stats" =>
    /\ statsdoc.exists
    /\ DOMAIN statsdoc.doc = {"rows_in", "rows_out", "total_qty", "gross_revenue"}
    /\ ParseInt(statsdoc.doc.rows_in).ok
    /\ ParseInt(statsdoc.doc.rows_out).ok
    /\ ParseInt(statsdoc.doc.total_qty).ok
    /\ ParseDecimal(statsdoc.doc.gross_revenue).ok
    /\ ParsedStats(statsdoc.doc) = stats

\* a run returned a gross revenue of 28 significant digits
C24_Witness ==
  /\ outcome = "Stats"
  /\ stats.rows_out >= 1
  /\ stats.gross_revenue.kind = "F"
  /\ Len(stats.gross_revenue.coef) = Prec

(***************************************************************************)
(* C25: the input is opened before the clean output: when opening the      *)
(* existing input fails the clean output is never opened, so what it held  *)
(* before the call is all it holds (no truncation, no header), and the     *)
(* stats document is as it was.                                            *)
(***************************************************************************)
C25_InputOpenedFirst ==
  /\ fout # "unopened" => fin # "unopened"
  /\ fault = "open_in" =>
       /\ input.exists
       /\ fin = "unopened" /\ fout = "unopened"
       /\ clean = pre.clean
       /\ statsdoc = pre.statsdoc
       /\ outcome = "InputFormatErr" /\ cause = "OSError"

\* opening the input failed in a call that found a clean output of an
\* earlier run
C25_Witness ==
  /\ fault = "open_in"
  /\ pc = "done"
  /\ pre.clean = OldClean
  /\ clean = OldClean

(***************************************************************************)
(* C26: in the fail-fast variant a record that fails validation ends the   *)
(* run with a ValidationError that carries the line of the file on which   *)
(* that record starts; it is the first such record, no record after it is  *)
(* read, the clean output holds the header and the rows accepted before    *)
(* it, both streams are closed and the stats document is not written.      *)
(***************************************************************************)
C26_FailFastOnFirstRejection ==
  /\ \A k \in 1..pos :
       Rejected(input.entries[k]) => outcome = "ValidationError" /\ last.at = k
  /\ outcome = "ValidationError" =>
       /\ Rejected(input.entries[last.at])
       /\ last.line_no = LineOf(input.entries, last.at)
       /\ pos = last.at
       /\ clean = [exists |-> TRUE, header |-> HeaderCols,
                   rows |-> AcceptedLines(input.entries, last.at - 1)]
       /\ fin = "closed" /\ fout = "closed"
       /\ statsdoc = pre.statsdoc /\ serialized = 0

(***************************************************************************)
(* C27: after a run that returned, the clean output has as many data lines *)
(* as rows_out of the stats document says, and total_qty and gross_revenue *)
(* of the document are the sum of qty and the sum of qty * unit_price      *)
(* computed from the lines of the clean output.                            *)
(***************************************************************************)
\* the sum of the qty column of the first n data lines
RECURSIVE CleanQty(_, _)
CleanQty(rows, n) ==
  IF n = 0 THEN 0 ELSE CleanQty(rows, n - 1) + ParseInt(rows[n][2]).val

\* the sum of qty * unit_price over the first n data lines
RECURSIVE CleanGross(_, _)
CleanGross(rows, n) ==
  IF n = 0 THEN Finite(0, <<0>>, 0)
  ELSE DecAddExact(CleanGross(rows, n - 1),
                   DecMulExact(DecFromInt(ParseInt(rows[n][2]).val),
                               ParseDecimal(rows[n][3]).d))

C27_ArtifactsAgree ==
  outcome = "Stats" =>
    /\ Len(clean.rows) = ParseInt(statsdoc.doc.rows_out).val
    /\ CleanQty(clean.rows, Len(clean.rows)) = ParseInt(statsdoc.doc.total_qty).val
    /\ DecEq(CleanGross(clean.rows, Len(clean.rows)),
             ParseDecimal(statsdoc.doc.gross_revenue).d)

(***************************************************************************)
(* C28: a call of run_pipeline on the clean output of a call that returned *)
(* rejects no record and, when it meets no I/O failure, returns the Stats  *)
(* of the first call and writes a clean output equal to its input.         *)
(***************************************************************************)
C28_NormalizationIsIdempotent ==
  first # NoFirst =>
    /\ log = <<>>
    /\ last.tag \in {"none", "Row"}
    /\ (pc = "done" /\ fault = "none") =>
         /\ outcome = "Stats"
         /\ clean = first.clean
         /\ stats = first.stats

\* the first call rejected a record and normalised another, and the call on
\* its clean output has returned
C28_Witness ==
  /\ first # NoFirst
  /\ pc = "done"
  /\ outcome = "Stats"
  /\ Len(first.log) >= 1
  /\ Len(clean.rows) >= 1
  /\ \E k \in 1..Len(first.clean.rows) : first.clean.rows[k][1] = <<"B">>

(***************************************************************************)
(* C29: the status of an Order made with the default status is new,        *)
(* SUBMITTED or PAID and changes only from new to SUBMITTED and from       *)
(* SUBMITTED to PAID; submit succeeds only from new and mark_paid only     *)
(* from SUBMITTED, and a call in any other status raises ValueError and    *)
(* leaves the status as it was.                                            *)
(***************************************************************************)
C29_StatusOnlyMovesForward ==
  /\ [](order_status \in {"new", "SUBMITTED", "PAID"})
  /\ [][/\ order_status' # order_status =>
             <<order_status, order_status'>> \in
               {<<"new", "SUBMITTED">>, <<"SUBMITTED", "PAID">>}
        /\ called'.method = "submit" =>
             IF order_status = "new"
             THEN order_status' = "SUBMITTED" /\ raised' = "none"
             ELSE order_status' = order_status /\ raised' = "ValueError"
        /\ called'.method = "mark_paid" =>
             IF order_status = "SUBMITTED"
             THEN order_status' = "PAID" /\ raised' = "none"
             ELSE order_status' = order_status /\ raised' = "ValueError"]_vars

\* submit was called on an order that is paid, and raised
C29_Witness ==
  /\ order_status = "PAID"
  /\ called.method = "submit"
  /\ raised = "ValueError"

(***************************************************************************)
(* C30: in an Order that was empty and has only been given items through   *)
(* add_item no two items have the same sku; add_item with a sku the order  *)
(* holds adds the quantity to the item of that sku and leaves the number   *)
(* of items as it was, and with a new sku it appends the item.             *)
(***************************************************************************)
C30_NoDuplicateSku ==
  /\ [](\A j, k \in 1..Len(items) : j # k => items[j].sku # items[k].sku)
  /\ [][called'.method = "add_item" =>
          IF \E k \in 1..Len(items) : items[k].sku = called'.sku
          THEN /\ Len(items') = Len(items)
               /\ \A k \in 1..Len(items) :
                    /\ items'[k].sku = items[k].sku
                    /\ items'[k].quantity =
                         IF items[k].sku = called'.sku
                         THEN items[k].quantity + called'.quantity
                         ELSE items[k].quantity
          ELSE items' = Append(items, LineItem(called'.sku, called'.unit_price,
                                               called'.quantity))]_vars

\* an order of two items, one of which took the quantity of a second
\* add_item with its sku
C30_Witness ==
  /\ Len(items) >= 2
  /\ called.method = "add_item"
  /\ \E k \in 1..Len(items) :
       items[k].sku = called.sku /\ items[k].quantity > called.quantity

====
